---- MODULE Spec2Model ----
(***************************************************************************)
(* Model of src/src/touchpad_i2c.rs: the Brightness enumeration with its   *)
(* successor function and the TouchpadI2C controller that opens            *)
(* /dev/i2c-<id> and writes a 13-byte brightness command.                  *)
(***************************************************************************)
EXTENDS Integers, Sequences, FiniteSets, TLC

\* ---------------------------------------------------------------- bounds
MaxCycles == 6      \* calls of Brightness::cycle in one run
MaxWrites == 2      \* buffers kept in the record of the bus traffic
MaxBus    == 1      \* bus indices 0..MaxBus are passed to TouchpadI2C::new

\* ------------------------------------------------------ enum Brightness
Off  == "Brightness::Off"
On   == "Brightness::On"
Low  == "Brightness::Low"
Half == "Brightness::Half"
Full == "Brightness::Full"

Brightness == {Off, On, Low, Half, Full}

\* the discriminants of the enum (Off = 0, On = 1, Low = 65, ...)
Discriminant(b) ==
    CASE b = Off  -> 0
      [] b = On   -> 1
      [] b = Low  -> 65
      [] b = Half -> 68
      [] b = Full -> 72

\* `brightness as u8`
AsU8(b) == Discriminant(b) % 256

\* a Default that is the first variant instead of On
Default_off == Off

\* impl Default for Brightness
Default == On

\* impl Display for Brightness
Display(b) ==
    CASE b = Off  -> "Off"
      [] b = On   -> "On"
      [] b = Low  -> "Low"
      [] b = Half -> "Half"
      [] b = Full -> "Full"

\* a successor taken from the numeric order of the discriminants, wrapping
next_numeric_order(self) ==
    CASE self = Off  -> On
      [] self = On   -> Low
      [] self = Low  -> Half
      [] self = Half -> Full
      [] self = Full -> Off

\* a successor that wraps from Full back to the default
next_wrap_default(self) ==
    CASE self = Off  -> Default
      [] self = On   -> Low
      [] self = Low  -> Half
      [] self = Half -> Full
      [] self = Full -> Default

\* a successor that bounces between the two brightest levels
next_full_to_half(self) ==
    CASE self = Off  -> Default
      [] self = On   -> Low
      [] self = Low  -> Half
      [] self = Half -> Full
      [] self = Full -> Half

\* Brightness::next
next(self) ==
    CASE self = Off  -> Default
      [] self = On   -> Low
      [] self = Low  -> Half
      [] self = Half -> Full
      [] self = Full -> Low

\* a cycle that hands back the value it replaced
cycle_returns_old(self) ==
    [self |-> next(self), ret |-> self]

\* Brightness::cycle: `*self = self.next(); *self`
cycle(self) ==
    LET new == next(self) IN [self |-> new, ret |-> new]

\* ------------------------------------------------- LinuxI2CError values
\* std::io::ErrorKind values an Io error can carry
IoKinds == {"NotFound", "PermissionDenied", "Other"}
\* errno values a Nix error can carry
NixErrnos == {"ENOENT", "EACCES"}

\* enum LinuxI2CError { Io(io::Error), Nix(nix::Error) }
LinuxI2CError ==
    {[variant |-> "Io", detail |-> k] : k \in IoKinds}
        \cup {[variant |-> "Nix", detail |-> e] : e \in NixErrnos}

\* what a fallible call of the i2cdev library hands back
LibOk == [tag |-> "Ok"]
LibErr(e) == [tag |-> "Err", error |-> e]
LibResults == {LibOk} \cup {LibErr(e) : e \in LinuxI2CError}

\* ---------------------------------------------------- struct TouchpadI2C
TOUCHPAD_ADDR == 21     \* 0x15

\* format!("/dev/i2c-{}", i2c_id)
DevPath(i2c_id) == "/dev/i2c-" \o ToString(i2c_id)

\* a match with the two hints attached to the wrong arms
extra_context_swapped(err) ==
    CASE err.variant = "Io" ->
            (CASE err.detail = "NotFound" ->
                      "Do you have the permission to read /dev/i2c-*?"
               [] err.detail = "PermissionDenied" ->
                      "Is i2c-dev kernel module loaded?"
               [] OTHER -> "")
      [] err.variant = "Nix" -> ""

\* a match that classifies by errno, so a Nix error gets a hint too
extra_context_by_errno(err) ==
    CASE err.variant = "Io" ->
            (CASE err.detail = "NotFound" -> "Is i2c-dev kernel module loaded?"
               [] err.detail = "PermissionDenied" ->
                      "Do you have the permission to read /dev/i2c-*?"
               [] OTHER -> "")
      [] err.variant = "Nix" ->
            (CASE err.detail = "ENOENT" -> "Is i2c-dev kernel module loaded?"
               [] err.detail = "EACCES" ->
                      "Do you have the permission to read /dev/i2c-*?"
               [] OTHER -> "")

\* the match on &err in the map_err closure of TouchpadI2C::new
extra_context(err) ==
    CASE err.variant = "Io" ->
            (CASE err.detail = "NotFound" -> "Is i2c-dev kernel module loaded?"
               [] err.detail = "PermissionDenied" ->
                      "Do you have the permission to read /dev/i2c-*?"
               [] OTHER -> "")
      [] err.variant = "Nix" -> ""

\* the context string the map_err closure builds
open_context(i2c_id, err) ==
    LET context == "Unable to open Touchpad I2C at /dev/i2c-" \o ToString(i2c_id)
        extra   == extra_context(err)
    IN  IF extra # "" THEN (context \o ". ") \o extra ELSE context

\* TouchpadI2C::new, given what LinuxI2CDevice::force_new returned
new(i2c_id, outcome) ==
    IF outcome.tag = "Err"
    THEN [tag |-> "Err",
          context |-> open_context(i2c_id, outcome.error),
          source |-> outcome.error]
    ELSE [tag |-> "Ok",
          value |-> [dev |-> [path |-> DevPath(i2c_id), addr |-> TOUCHPAD_ADDR],
                     i2c_id |-> i2c_id]]

\* a buffer with the level one position early
msg_misplaced(brightness) ==
    <<5, 0, 61, 3, 6, 0, 7, 0, 13, 20, AsU8(brightness), 3, 173>>

\* the array `msg` of TouchpadI2C::set_brightness
msg(brightness) ==
    <<5, 0, 61, 3, 6, 0, 7, 0, 13, 20, 3, AsU8(brightness), 173>>

\* a wrapper that keeps the message and loses the error it wraps
with_context_lossy(res, context) ==
    IF res.tag = "Ok"
    THEN [tag |-> "Ok"]
    ELSE [tag |-> "Err", context |-> context,
          source |-> [variant |-> "Io", detail |-> "Other"]]

\* anyhow's with_context on the Result of the write
with_context(res, context) ==
    IF res.tag = "Ok"
    THEN [tag |-> "Ok"]
    ELSE [tag |-> "Err", context |-> context, source |-> res.error]

\* a set_brightness that writes the buffer again when the write failed
set_brightness_retry(self, brightness, outcome) ==
    LET w == [op |-> "write", dev |-> self.dev.path, data |-> msg(brightness)] IN
    [io     |-> IF outcome.tag = "Err" THEN <<w, w>> ELSE <<w>>,
     result |-> with_context(outcome,
                    "Could not set touchpad brightness to " \o Display(brightness))]

\* TouchpadI2C::set_brightness, given what self.dev.write returned:
\* io is the traffic it puts on the handle, result is what it returns
set_brightness(self, brightness, outcome) ==
    [io     |-> <<[op |-> "write", dev |-> self.dev.path, data |-> msg(brightness)]>>,
     result |-> with_context(outcome,
                    "Could not set touchpad brightness to " \o Display(brightness))]

\* ------------------------------------------------------------ the state
VARIABLES
    level,      \* the caller's Brightness variable
    ret,        \* value returned by the last call of cycle ("none" before)
    history,    \* the levels the variable has held, oldest first
    bus,        \* the i2c_id passed to the last call of TouchpadI2C::new
    forced,     \* what LinuxI2CDevice::force_new returned to that call
    opened,     \* the Result of the last call of TouchpadI2C::new
    touchpad,   \* the controller the caller holds, if any
    wire,       \* the operations issued on device handles, oldest first
    calls,      \* number of calls of set_brightness
    request,    \* the level passed to the last call of set_brightness
    written,    \* what self.dev.write returned to that call
    sent        \* the Result of the last call of set_brightness

vars == <<level, ret, history, bus, forced, opened, touchpad, wire, calls,
          request, written, sent>>

NoResult == [tag |-> "None"]
NoTouchpad == [tag |-> "None"]

Init ==
    /\ level \in Brightness
    /\ ret = "none"
    /\ history = <<level>>
    /\ bus = -1
    /\ forced = NoResult
    /\ opened = NoResult
    /\ touchpad = NoTouchpad
    /\ wire = <<>>
    /\ calls = 0
    /\ request = "none"
    /\ written = NoResult
    /\ sent = NoResult

\* brightness.cycle()
Cycle ==
    /\ Len(history) <= MaxCycles
    /\ level' = cycle(level).self
    /\ ret' = cycle(level).ret
    /\ history' = Append(history, level')
    /\ UNCHANGED <<bus, forced, opened, touchpad, wire, calls, request, written, sent>>

\* TouchpadI2C::new(i2c_id), called until it yields a controller; the caller
\* keeps the controller of an Ok for the rest of the run
New ==
    \E i2c_id \in 0..MaxBus, outcome \in LibResults :
        /\ touchpad.tag = "None"
        /\ bus' = i2c_id
        /\ forced' = outcome
        /\ opened' = new(i2c_id, outcome)
        /\ touchpad' = IF opened'.tag = "Ok"
                       THEN [tag |-> "Some", value |-> opened'.value]
                       ELSE NoTouchpad
        /\ UNCHANGED <<level, ret, history, wire, calls, request, written, sent>>

\* touchpad.set_brightness(brightness)
SetBrightness ==
    \E brightness \in Brightness, outcome \in LibResults :
        /\ touchpad.tag = "Some"
        /\ calls < MaxWrites
        /\ LET r == set_brightness(touchpad.value, brightness, outcome) IN
             /\ wire' = wire \o r.io
             /\ sent' = r.result
        /\ calls' = calls + 1
        /\ request' = brightness
        /\ written' = outcome
        /\ UNCHANGED <<level, ret, history, bus, forced, opened, touchpad>>

Next == Cycle \/ New \/ SetBrightness

Spec == Init /\ [][Next]_vars

\* ------------------------------------------------------------ properties
\* the tables the documentation states, written out independently of the code
SuccessorTable ==
    (Off :> On) @@ (On :> Low) @@ (Low :> Half) @@ (Half :> Full) @@ (Full :> Low)
CodeTable ==
    (Off :> 0) @@ (On :> 1) @@ (Low :> 65) @@ (Half :> 68) @@ (Full :> 72)
NameTable ==
    (Off :> "Off") @@ (On :> "On") @@ (Low :> "Low") @@ (Half :> "Half")
        @@ (Full :> "Full")
PathTable == <<"/dev/i2c-0", "/dev/i2c-1", "/dev/i2c-2", "/dev/i2c-3">>
Steady == {Low, Half, Full}
IoNotFound == [variant |-> "Io", detail |-> "NotFound"]
IoPermissionDenied == [variant |-> "Io", detail |-> "PermissionDenied"]

\* C1: every application of cycle takes the level to its successor in the
\* fixed table Off->On, On->Low, Low->Half, Half->Full, Full->Low.
C1_CycleFollowsTable ==
    \A i \in 1..(Len(history) - 1) : history[i + 1] = SuccessorTable[history[i]]

\* a run from Off that has used all five rows of the table
C1_Witness ==
    /\ history[1] = Off
    /\ \A b \in Brightness : \E i \in 1..(Len(history) - 1) : history[i] = b

\* C2: from On, repeated cycling visits On, Low, Half, Full, Low, Half, Full,
\* ... in that order; after the first cycle the level is never On and never Off.
C2_FromOnOrder ==
    history[1] = On =>
        /\ \A i \in 2..Len(history) :
              history[i] = <<Low, Half, Full>>[((i - 2) % 3) + 1]
        /\ \A i \in 2..Len(history) : history[i] \notin {On, Off}

\* a run from On that has gone round the loop and is back at Low
C2_Witness ==
    /\ history[1] = On
    /\ Len(history) >= 5
    /\ history[5] = Low
    /\ level = history[Len(history)]

\* C3: Off is never the result of cycle, from any starting level, Off
\* included; the level is Off only where the run was started with it.
C3_OffNeverCycled ==
    /\ \A i \in 2..Len(history) : history[i] # Off
    /\ ret # Off
    /\ (level = Off => Len(history) = 1 /\ history[1] = Off)

\* a run started at Off that has cycled several times
C3_Witness ==
    /\ history[1] = Off
    /\ Len(history) >= 4
    /\ ret = Half

\* C4: every buffer written has 13 bytes, byte 11 is the code of the level
\* being set (one of 0, 1, 65, 68, 72), and the other 12 bytes are the fixed
\* sequence 05 00 3d 03 06 00 07 00 0d 14 03 _ ad.
C4_CommandBuffer ==
    /\ \A i \in 1..Len(wire) :
          LET data == wire[i].data IN
          /\ Len(data) = 13
          /\ SubSeq(data, 1, 11) = <<5, 0, 61, 3, 6, 0, 7, 0, 13, 20, 3>>
          /\ data[13] = 173
          /\ data[12] \in {0, 1, 65, 68, 72}
    /\ (wire # <<>> => wire[Len(wire)].data[12] = CodeTable[request])

\* two buffers on the wire, the last one for Full and an earlier one for Off
C4_Witness ==
    /\ Len(wire) >= 2
    /\ request = Full
    /\ wire[1].data[12] = 0

\* C5: each call of set_brightness puts exactly one write of the whole 13-byte
\* buffer on the controller's handle, whether the write fails or not, and
\* nothing else: no second write after a failure, no read.
C5_OneWritePerCall ==
    /\ Len(wire) = calls
    /\ \A i \in 1..Len(wire) :
          /\ wire[i].op = "write"
          /\ Len(wire[i].data) = 13
          /\ touchpad.tag = "Some"
          /\ wire[i].dev = touchpad.value.dev.path

\* two calls, the last of which failed
C5_Witness ==
    /\ calls >= 2
    /\ written.tag = "Err"
    /\ sent.tag = "Err"

\* C6: when the write fails, set_brightness returns an error whose message
\* names the level being set by its display name and whose cause is the
\* write's own error; when the write succeeds it returns success.
C6_WriteFailureNamesLevel ==
    /\ (written.tag = "Err" =>
          /\ sent.tag = "Err"
          /\ sent.context = "Could not set touchpad brightness to " \o NameTable[request]
          /\ sent.source = written.error)
    /\ (written.tag = "Ok" => sent.tag = "Ok")
    /\ (written.tag = "None" => sent.tag = "None")

\* a failed write of Half with a low-level cause
C6_Witness ==
    /\ sent.tag = "Err"
    /\ request = Half
    /\ sent.source = [variant |-> "Nix", detail |-> "EACCES"]

\* C7: new on a missing node returns an error whose cause is the NotFound
\* error and whose message names /dev/i2c-<id> and asks whether the i2c-dev
\* module is loaded; on a node without rights, an error whose cause is the
\* PermissionDenied error and whose message names the path and asks about
\* the permission on /dev/i2c-*; neither leaves the caller a controller.
C7_OpenHints ==
    /\ (forced.tag = "Err" /\ forced.error = IoNotFound =>
          /\ opened.tag = "Err"
          /\ opened.source = IoNotFound
          /\ opened.context = ("Unable to open Touchpad I2C at " \o PathTable[bus + 1])
                                  \o ". Is i2c-dev kernel module loaded?"
          /\ touchpad.tag = "None")
    /\ (forced.tag = "Err" /\ forced.error = IoPermissionDenied =>
          /\ opened.tag = "Err"
          /\ opened.source = IoPermissionDenied
          /\ opened.context = ("Unable to open Touchpad I2C at " \o PathTable[bus + 1])
                                  \o ". Do you have the permission to read /dev/i2c-*?"
          /\ touchpad.tag = "None")

\* bus 1 does not exist
C7_Witness ==
    /\ bus = 1
    /\ forced.tag = "Err"
    /\ forced.error = IoNotFound
    /\ opened.tag = "Err"

\* C8: new failing with anything but an Io NotFound or Io PermissionDenied
\* (another Io kind, or any Nix error whatever its errno) returns an error
\* with the bare "Unable to open" message naming the path, no hint, and the
\* original error as its cause.
C8_OtherErrorsBare ==
    (forced.tag = "Err" /\ forced.error \notin {IoNotFound, IoPermissionDenied}) =>
        /\ opened.tag = "Err"
        /\ opened.context = "Unable to open Touchpad I2C at " \o PathTable[bus + 1]
        /\ opened.source = forced.error

\* the open failed in the bus protocol with errno ENOENT
C8_Witness ==
    /\ opened.tag = "Err"
    /\ forced.tag = "Err"
    /\ forced.error = [variant |-> "Nix", detail |-> "ENOENT"]

\* C9: after cycle on a variable holding L the variable holds the successor
\* of L and the value returned is the value now held, never the old one.
C9_CycleReturnsNew ==
    ret # "none" =>
        /\ Len(history) >= 2
        /\ level = SuccessorTable[history[Len(history) - 1]]
        /\ ret = level
        /\ ret # history[Len(history) - 1]

\* cycle has just wrapped from Full to Low
C9_Witness ==
    /\ ret = Low
    /\ Len(history) >= 2
    /\ history[Len(history) - 1] = Full

\* C10: from any start, after at most two cycles the level is in
\* {Low, Half, Full} and stays there, repeating with period exactly 3; On is
\* held at most once after the start, and only right after a start at Off.
C10_SteadyLoop ==
    /\ \A i \in 3..Len(history) : history[i] \in Steady
    /\ \A i \in 1..(Len(history) - 1) :
          history[i] \in Steady => history[i + 1] \in Steady
    /\ \A i \in 3..(Len(history) - 3) :
          /\ history[i + 3] = history[i]
          /\ history[i + 1] # history[i]
          /\ history[i + 2] # history[i]
    /\ \A i \in 2..Len(history) :
          history[i] = On => (i = 2 /\ history[1] = Off)
    /\ Cardinality({i \in 2..Len(history) : history[i] = On}) <= 1

\* a run from Off that passed through On and has completed a full period
C10_Witness ==
    /\ history[1] = Off
    /\ Len(history) >= 6
    /\ history[2] = On
    /\ history[6] = history[3]
====
